---------------------------- MODULE Spec2Model ----------------------------
(***************************************************************************)
(* usbd-storage: the Bulk Only Transport state machine (transport/bbb.rs), *)
(* its IO buffer (buffer.rs) and the SCSI subclass poll loop               *)
(* (subclass/scsi.rs), driven by a USB host through two bulk endpoints.    *)
(*                                                                         *)
(* The device side is written as operators over a record `w` holding the   *)
(* fields of BulkOnly, of its Buffer and of the two endpoints; an          *)
(* operator returns the record after the call, its result in `res`.        *)
(* The actions at the end apply them to the variables.                     *)
(***************************************************************************)
EXTENDS Integers, Sequences, FiniteSets, TLC

VARIABLES
    built,        \* result of BulkOnly::new: "Ok", "InvalidMaxLun", "BufferTooSmall"
    packet_size,  \* max packet size of both bulk endpoints
    max_lun,      \* BulkOnly.max_lun
    state,        \* BulkOnly.state
    cbw,          \* BulkOnly.cbw
    cs,           \* BulkOnly.cs: "None" or a CommandStatus
    inner,        \* Buffer.inner
    rpos,         \* Buffer.rpos
    wpos,         \* Buffer.wpos
    in_q,         \* packets written to the IN endpoint, not yet taken by the host
    out_q,        \* packets the host has sent to the OUT endpoint, not yet read
    in_stalled,   \* IN endpoint halted
    out_stalled,  \* OUT endpoint halted
    pc,           \* position of Scsi::poll: "out" (not running) or "cb" (in the callback)
    cmd,          \* the callback still runs and owns its Command (pass/fail/fail_phase
                  \* consume it)
    used,         \* inputs taken so far: host transfers, bus resets, callback data calls
    panicked,     \* the program has panicked
    res,          \* result of the last data call of the callback
    rd,           \* result of the last BulkOnly::read
    wr,           \* result of the last BulkOnly::write
    pollRes,      \* result of the last Scsi::poll
    host,         \* the host: whether its last CBW was a data-out command, data bytes
                  \* sent, and the tag of its last CBW
    g             \* history of the current command (not program state)

vars == <<built, packet_size, max_lun, state, cbw, cs, inner, rpos, wpos, in_q, out_q,
          in_stalled, out_stalled, pc, cmd, used, panicked, res, rd, wr, pollRes,
          host, g>>

-----------------------------------------------------------------------------
(* Program constants *)

CBW_LEN == 31
CSW_LEN == 13
MIN_CB_LEN == 1
MAX_CB_LEN == 16
MAX_LUN_LIMIT == 15

(* Bounds of the model *)

MaxInputs == 4      \* host transfers, bus resets and callback data calls in one run
InSlots == 1        \* packets the IN endpoint holds before write answers WouldBlock

\* (packet_size, max_lun, buf.len()) handed to BulkOnly::new
Configs ==
    {<<8, 0, 31>>, <<8, 0, 32>>, <<16, 0, 31>>, <<16, 0, 40>>, <<32, 0, 32>>,
     <<64, 0, 64>>, <<32, 0, 31>>, <<8, 0, 30>>, <<8, 16, 64>>}

Min(a, b) == IF a < b THEN a ELSE b
SatSub(a, b) == IF a > b THEN a - b ELSE 0

\* A `let` of the source: v is computed once and bound in F
Let(v, F(_)) == CHOOSE r \in {F(x) : x \in {v}} : TRUE


-----------------------------------------------------------------------------
(* Wire formats *)

to_le_bytes(n) ==
    <<n % 256, (n \div 256) % 256, (n \div 65536) % 256, (n \div 16777216) % 256>>

from_le_bytes(b) == b[1] + 256 * b[2] + 65536 * b[3] + 16777216 * b[4]

CBW_SIGNATURE_LE == to_le_bytes(1128420181)   \* 0x43425355, "USBC"
CSW_SIGNATURE_LE == to_le_bytes(1396855637)   \* 0x53425355, "USBS"

StatusByte(s) == CASE s = "Passed" -> 0 [] s = "Failed" -> 1 [] s = "PhaseError" -> 2

Slice(s, from, to) == SubSeq(s, from + 1, to)   \* s[from..to], 0-based, `to` excluded

Zeros(n) == [i \in 1..n |-> 0]

DefaultCbw ==
    [tag |-> 0, data_transfer_len |-> 0, direction |-> "NotExpected", lun |-> 0,
     block_len |-> 0, block |-> Zeros(16)]

\* Bit 7 of a byte
Bit7(b) == (b \div 128) % 2 = 1

\* CommandBlockWrapper::from_le_bytes over the 27 bytes after the signature
CbwInvalidLen(value) == ~(value[11] >= MIN_CB_LEN /\ value[11] <= MAX_CB_LEN)

\* from_le_bytes that takes the direction from the flag bit alone
CbwFromLeBytesByFlag(bytes) ==
    Let(bytes, LAMBDA value :
    IF CbwInvalidLen(value) THEN [ok |-> FALSE, cbw |-> DefaultCbw]
    ELSE [ok |-> TRUE,
          cbw |-> [tag |-> from_le_bytes(Slice(value, 0, 4)),
                   data_transfer_len |-> from_le_bytes(Slice(value, 4, 8)),
                   direction |-> IF Bit7(value[9]) THEN "In" ELSE "Out",
                   lun |-> value[10] % 16,
                   block_len |-> value[11],
                   block |-> Slice(value, 11, 27)]])

CbwFromLeBytes(bytes) ==
    Let(bytes, LAMBDA value :
    IF CbwInvalidLen(value) THEN [ok |-> FALSE, cbw |-> DefaultCbw]
    ELSE [ok |-> TRUE,
          cbw |-> [tag |-> from_le_bytes(Slice(value, 0, 4)),
                   data_transfer_len |-> from_le_bytes(Slice(value, 4, 8)),
                   direction |-> IF from_le_bytes(Slice(value, 4, 8)) # 0
                                 THEN (IF Bit7(value[9]) THEN "In" ELSE "Out")
                                 ELSE "NotExpected",
                   lun |-> value[10] % 16,
                   block_len |-> value[11],
                   block |-> Slice(value, 11, 27)]])

-----------------------------------------------------------------------------
(* History of the current command, kept beside the program state.  It is   *)
(* written where a packet crosses an endpoint and where the callback's     *)
(* bytes enter or leave the IO buffer.                                      *)

NoHistory ==
    [tag0 |-> 0, dtl0 |-> 0, dir0 |-> "NotExpected",
     moved |-> 0,        \* bytes that crossed a bulk endpoint in the data phase
     dataOut |-> <<>>,   \* bytes written to the IN endpoint in the data phase
     pkts |-> <<>>,      \* lengths of the packets of dataOut
     cswOut |-> <<>>,    \* bytes written to the IN endpoint in the status phase
     stalls |-> {},      \* endpoints halted for this command
     cswStall |-> <<>>,  \* <<stalls>> when the first CSW packet was written
     latched |-> "None", \* the status handed to set_status
     held |-> [tag |-> 0, residue |-> 0, status |-> "None", unread |-> 0],
                         \* cbw.tag, cbw.data_transfer_len, cs and the unread bytes of
                         \* the IO buffer when the CSW was built
     accepted |-> <<>>,  \* bytes write_data / try_write_data_all took from the callback
     entry |-> 0,        \* unread bytes of the IO buffer when the CBW was accepted
     got |-> <<>>,       \* bytes read_data handed to the callback
     sent |-> <<>>,      \* data bytes read from the OUT endpoint in the data phase
     bad |-> 0,          \* invalid CBWs met so far (kept from command to command)
     stray |-> {},       \* <<endpoint, state>> of each packet that crossed an endpoint
                         \* in a state of another phase (kept likewise)
     edges |-> {},       \* <<from, to, CSW bytes sent>> of each change of state, from
                         \* the one that began the command on, with "Reset" for an
                         \* Idle that reset() entered
     slices |-> <<>>,    \* lengths of the slices handed to the closures of a Buffer
                         \* that is driven on its own
     call |-> [len |-> 0, count |-> 0, n |-> 0, res |-> "Ok"],
                         \* the last call of that Buffer: the length of its data or
                         \* its max_count, the count its closure answered, and what
                         \* it returned: Ok(n) or Err
     fifo |-> [put |-> <<>>, took |-> <<>>, over |-> FALSE],
                         \* of that Buffer, since it was built or cleaned: the bytes
                         \* its writers had accepted, those its readers consumed, and
                         \* whether a closure of write_all answered more than its slice
     parsed |-> "None"]  \* the command parse_cb made of the block, "panic" if it
                         \* indexed behind the end of the block

-----------------------------------------------------------------------------
(* Endpoints (usb-device Endpoint<In> / Endpoint<Out>)                      *)

DataStates == {"DataTransferToHost", "DataTransferFromHost", "DataTransferNoData"}

\* out_ep.read(buf) with buf.len() = len: one packet, or WouldBlock
out_ep_read(w, len) ==
    IF w.out_q = <<>> THEN [w |-> w, res |-> "WouldBlock", count |-> 0, bytes |-> <<>>]
    ELSE IF Len(Head(w.out_q)) > len
         THEN [w |-> w, res |-> "BufferOverflow", count |-> 0, bytes |-> <<>>]
    ELSE Let(Head(w.out_q), LAMBDA pkt :
         LET a == [w EXCEPT !.out_q = Tail(@)]
             b == CASE w.state = "DataTransferFromHost" ->
                         [a EXCEPT !.g.moved = @ + Len(pkt), !.g.sent = @ \o pkt]
                    [] w.state \in {"Idle", "CommandTransfer"} -> a
                    [] OTHER -> [a EXCEPT !.g.stray = @ \cup {<<"out", w.state>>}]
         IN [w |-> b, res |-> "Ok", count |-> Len(pkt), bytes |-> pkt])

\* in_ep.write(bytes): the packet is taken, or WouldBlock while the endpoint is busy
in_ep_write(w, packet) ==
    IF Len(w.in_q) >= InSlots THEN [w |-> w, res |-> "WouldBlock", count |-> 0]
    ELSE Let(packet, LAMBDA bytes :
         LET a == [w EXCEPT !.in_q = Append(@, bytes)]
             b == CASE w.state = "DataTransferToHost" ->
                         [a EXCEPT !.g.moved = @ + Len(bytes), !.g.dataOut = @ \o bytes,
                                   !.g.pkts = Append(@, Len(bytes))]
                    [] w.state = "StatusTransfer" ->
                         [a EXCEPT !.g.cswOut = @ \o bytes,
                                   !.g.cswStall = IF @ = <<>> THEN <<w.g.stalls>> ELSE @]
                    [] OTHER -> [a EXCEPT !.g.stray = @ \cup {<<"in", w.state>>}]
         IN [w |-> b, res |-> "Ok", count |-> Len(bytes)])

stall_in_ep(w) == [w EXCEPT !.in_stalled = TRUE, !.g.stalls = @ \cup {"in"}]

stall_out_ep(w) == [w EXCEPT !.out_stalled = TRUE, !.g.stalls = @ \cup {"out"}]

stall_eps(w) == stall_out_ep(stall_in_ep(w))

unstall_eps(w) == [w EXCEPT !.in_stalled = FALSE, !.out_stalled = FALSE]

-----------------------------------------------------------------------------
(* The closures the transport hands to the buffer.  A closure is a record   *)
(* [fn, src]; FillSlice and DrainSlice call it.                             *)

\* The closure read_packet hands to write_all
ReadFill(w, len) ==
    Let(out_ep_read(w, len), LAMBDA r :
    CASE r.res = "Ok" -> r
      [] r.res = "WouldBlock" -> [r EXCEPT !.res = "Ok", !.count = 0]
      [] OTHER -> [r EXCEPT !.res = "UsbError"])

\* The closure try_write_data_all hands to write_all
CopyFill(w, src, len) ==
    [w |-> w, res |-> "Ok", count |-> Len(src), bytes |-> SubSeq(src, 1, len)]

\* The closure write_packet hands to Buffer::read
WriteDrain(w, unread) ==
    Let(unread, LAMBDA buf :
    IF buf # <<>>
    THEN Let(in_ep_write(w, SubSeq(buf, 1, Min(w.ps, Len(buf)))), LAMBDA r :
         CASE r.res = "Ok" -> r
           [] r.res = "WouldBlock" -> [r EXCEPT !.res = "Ok", !.count = 0]
           [] OTHER -> [r EXCEPT !.res = "UsbError"])
    ELSE [w |-> w, res |-> "Ok", count |-> 0])

\* A closure as the tests of buffer.rs hand to write_all: it writes f.bytes at
\* the head of the slice and answers f.count, whatever the slice's length
TestFill(w, f, len) ==
    [w |-> [w EXCEPT !.g.slices = Append(@, len)], res |-> "Ok", count |-> f.count,
     bytes |-> SubSeq(f.bytes, 1, Min(len, Len(f.bytes)))]

\* A closure as the tests of buffer.rs hand to Buffer::read: it answers f.count
TestDrain(w, f, buf) ==
    [w |-> [w EXCEPT !.g.slices = Append(@, Len(buf))], res |-> "Ok", count |-> f.count]

\* f(&mut inner[wpos..wpos + len]) of write_all
FillSlice(f, w, len) ==
    CASE f.fn = "ReadFill" -> ReadFill(w, len)
      [] f.fn = "CopyFill" -> CopyFill(w, f.src, len)
      [] f.fn = "TestFill" -> TestFill(w, f, len)

\* f(&mut inner[rpos..wpos]) of Buffer::read
DrainSlice(f, w, buf) ==
    CASE f.fn = "WriteDrain" -> WriteDrain(w, buf)
      [] f.fn = "TestDrain" -> TestDrain(w, f, buf)

-----------------------------------------------------------------------------
(* Buffer (buffer.rs)                                                       *)

available_read(w) == w.wpos - w.rpos

available_write(w) == Len(w.inner) - w.wpos

clean(w) == [w EXCEPT !.rpos = 0, !.wpos = 0]

\* The unread bytes inner[rpos..wpos]
Unread(w) == Slice(w.inner, w.rpos, w.wpos)

\* Copies `bytes` into inner[wpos..], leaving the cursors alone
Store(w, data) ==
    Let(data, LAMBDA bytes :
    [w EXCEPT !.inner = [i \in 1..Len(@) |->
        IF i > w.wpos /\ i <= w.wpos + Len(bytes) THEN bytes[i - w.wpos] ELSE @[i]]])

\* shift that moves the cursors and leaves the bytes where they are
shift_without_copy(w) ==
    IF w.rpos # w.wpos
    THEN [w EXCEPT !.wpos = w.wpos - w.rpos, !.rpos = 0]
    ELSE clean(w)

\* shift that copies from one byte behind rpos
shift_off_by_one(w) ==
    IF w.rpos # w.wpos
    THEN [w EXCEPT !.inner = [i \in 1..Len(@) |->
                       IF i <= w.wpos - w.rpos /\ w.rpos + i < Len(@)
                       THEN @[w.rpos + i + 1] ELSE @[i]],
                   !.wpos = w.wpos - w.rpos,
                   !.rpos = 0]
    ELSE clean(w)

\* shift: core::ptr::copy is a memmove, the unread bytes land at offset 0
shift(w) ==
    IF w.rpos # w.wpos
    THEN [w EXCEPT !.inner = [i \in 1..Len(@) |->
                       IF i <= w.wpos - w.rpos THEN @[w.rpos + i] ELSE @[i]],
                   !.wpos = w.wpos - w.rpos,
                   !.rpos = 0]
    ELSE clean(w)

\* Buffer::write that shifts the unread bytes down before every write
buf_write_always_shift(w, data) ==
    Let(shift(w), LAMBDA a :
    Let(Min(available_write(a), Len(data)), LAMBDA count :
    [Store(a, SubSeq(data, 1, count)) EXCEPT !.wpos = a.wpos + count, !.n = count]))

\* Buffer::write that never shifts the unread bytes down
buf_write_without_shift(w, data) ==
    Let(Min(available_write(w), Len(data)), LAMBDA count :
    [Store(w, SubSeq(data, 1, count)) EXCEPT !.wpos = w.wpos + count, !.n = count])

\* Buffer::write(data); the count is left in n
buf_write(w, data) ==
    Let(IF available_write(w) < Len(data) THEN shift(w) ELSE w, LAMBDA a :
    Let(Min(available_write(a), Len(data)), LAMBDA count :
    [Store(a, SubSeq(data, 1, count)) EXCEPT !.wpos = a.wpos + count, !.n = count]))

\* write_all that advances wpos by the count the closure answers, uncapped
write_all_uncapped(w, max_count, overflow_err, f) ==
    Let(IF available_write(w) < max_count THEN shift(w) ELSE w, LAMBDA a :
    IF available_write(a) < max_count
    THEN [a EXCEPT !.res = overflow_err, !.n = 0]
    ELSE Let(FillSlice(f, a, max_count), LAMBDA r :
         IF r.res # "Ok" THEN [r.w EXCEPT !.res = r.res, !.n = 0]
         ELSE [Store(r.w, r.bytes) EXCEPT !.wpos = a.wpos + r.count,
                                          !.n = r.count,
                                          !.res = "Ok"]))

\* Buffer::write_all(max_count, overflow_err, f); f fills a slice of max_count bytes
write_all(w, max_count, overflow_err, f) ==
    Let(IF available_write(w) < max_count THEN shift(w) ELSE w, LAMBDA a :
    IF available_write(a) < max_count
    THEN [a EXCEPT !.res = overflow_err, !.n = 0]
    ELSE Let(FillSlice(f, a, max_count), LAMBDA r :
         IF r.res # "Ok" THEN [r.w EXCEPT !.res = r.res, !.n = 0]
         ELSE LET advance_by == Min(r.count, Len(a.inner) - a.wpos)
              IN [Store(r.w, r.bytes) EXCEPT !.wpos = a.wpos + advance_by,
                                             !.n = advance_by,
                                             !.res = "Ok"]))

\* Buffer::read(f); f consumes from the unread bytes and answers a count
buf_read(w, f) ==
    Let(DrainSlice(f, w, Unread(w)), LAMBDA r :
    IF r.res # "Ok" THEN [r.w EXCEPT !.res = r.res, !.n = 0]
    ELSE LET advance_by == Min(r.count, available_read(w))
         IN [r.w EXCEPT !.rpos = w.rpos + advance_by, !.n = advance_by, !.res = "Ok"])

-----------------------------------------------------------------------------
(* BulkOnly (transport/bbb.rs)                                              *)

status_present(w) == w.cs # "None"

\* The change of state that `self.state = state` makes, noted in the history
Edge(w, st) ==
    IF w.state = st THEN w
    ELSE [w EXCEPT !.g.edges = @ \cup {<<w.state, st,
                       IF w.state = "StatusTransfer" THEN Len(w.g.cswOut) ELSE 0>>}]

\* enter_state that keeps the latched status when going Idle
enter_state_keeps_status(w, st) ==
    IF st = "Idle"
    THEN [clean(w) EXCEPT !.cbw = DefaultCbw, !.state = st]
    ELSE [w EXCEPT !.state = st]

enter_state(w, st) ==
    IF st = "Idle"
    THEN [clean(Edge(w, st)) EXCEPT !.cbw = DefaultCbw, !.cs = "None", !.state = st]
    ELSE [Edge(w, st) EXCEPT !.state = st]

\* read_packet that empties the buffer when a packet does not fit
read_packet_makes_room(w) ==
    Let(write_all(IF Len(w.inner) - available_read(w) < w.ps THEN clean(w) ELSE w,
                  w.ps, "IoBufferOverflow", [fn |-> "ReadFill"]), LAMBDA a :
    IF a.res # "Ok" THEN a
    ELSE IF a.n = 0 THEN [a EXCEPT !.res = "WouldBlock"]
    ELSE a)

read_packet(w) ==
    Let(write_all(w, w.ps, "IoBufferOverflow", [fn |-> "ReadFill"]), LAMBDA a :
    IF a.res # "Ok" THEN a
    ELSE IF a.n = 0 THEN [a EXCEPT !.res = "WouldBlock"]
    ELSE a)

write_packet(w) ==
    Let(buf_read(w, [fn |-> "WriteDrain"]), LAMBDA a :
    IF a.res # "Ok" THEN a
    ELSE IF a.n = 0 THEN [a EXCEPT !.res = "WouldBlock"]
    ELSE a)

\* handle_write_csw that goes Idle after the first packet of the CSW
handle_write_csw_one_packet(w) ==
    Let(write_packet(w), LAMBDA a :
    IF a.res # "Ok" THEN a
    ELSE enter_state(a, "Idle"))

handle_write_csw(w) ==
    Let(write_packet(w), LAMBDA a :
    IF a.res # "Ok" THEN a
    ELSE IF available_read(a) = 0 THEN enter_state(a, "Idle")
    ELSE a)

\* build_csw that answers every command with the tag of the first one
build_csw_first_tag(w) ==
    CSW_SIGNATURE_LE \o to_le_bytes(258) \o to_le_bytes(w.cbw.data_transfer_len)
        \o <<StatusByte(w.cs)>>

\* build_csw that writes the residue with its most significant byte first
build_csw_residue_be(w) ==
    CSW_SIGNATURE_LE \o to_le_bytes(w.cbw.tag)
        \o Let(to_le_bytes(w.cbw.data_transfer_len), LAMBDA b : <<b[4], b[3], b[2], b[1]>>)
        \o <<StatusByte(w.cs)>>

build_csw(w) ==
    CSW_SIGNATURE_LE \o to_le_bytes(w.cbw.tag) \o to_le_bytes(w.cbw.data_transfer_len)
        \o <<StatusByte(w.cs)>>

\* The head of end_data_transfer with the endpoints exchanged
end_stall_other_ep(w) ==
    IF w.cbw.data_transfer_len > 0
    THEN CASE w.state = "DataTransferToHost" -> stall_out_ep(w)
           [] w.state = "DataTransferFromHost" -> stall_in_ep(w)
           [] OTHER -> w
    ELSE w

\* The stall of spec. 6.7.2 / 6.7.3 at the head of end_data_transfer
end_stall(w) ==
    IF w.cbw.data_transfer_len > 0
    THEN CASE w.state = "DataTransferToHost" -> stall_in_ep(w)
           [] w.state = "DataTransferFromHost" -> stall_out_ep(w)
           [] OTHER -> w
    ELSE w

\* What the transport holds when it builds the CSW, noted in the history
Held(w) ==
    [w EXCEPT !.g.held = [tag |-> w.cbw.tag, residue |-> w.cbw.data_transfer_len,
                          status |-> w.cs, unread |-> available_read(w)]]

\* end_data_transfer that writes the CSW behind the unread bytes of the buffer
end_data_transfer_appends_csw(w) ==
    IF ~status_present(w) THEN [w EXCEPT !.panicked = TRUE]
    ELSE Let(Held(end_stall(w)), LAMBDA a :
         Let(build_csw(a), LAMBDA csw :
         Let(buf_write(a, csw), LAMBDA b :
         Let(enter_state(b, "StatusTransfer"), handle_write_csw))))

\* end_data_transfer; its closing self.write() runs in StatusTransfer, where write
\* dispatches to handle_write_csw.  build_csw().unwrap() panics without a status.
end_data_transfer(w) ==
    IF ~status_present(w) THEN [w EXCEPT !.panicked = TRUE]
    ELSE Let(Held(end_stall(w)), LAMBDA a :
         Let(build_csw(a), LAMBDA csw :
         Let(buf_write(clean(a), csw), LAMBDA b :
         Let(enter_state(b, "StatusTransfer"), handle_write_csw))))

check_end_data_transfer(w) ==
    IF status_present(w)
    THEN CASE w.state = "DataTransferNoData" -> end_data_transfer(w)
           [] w.state \in {"DataTransferFromHost", "DataTransferToHost"}
              /\ available_read(w) = 0 -> end_data_transfer(w)
           [] OTHER -> [w EXCEPT !.res = "Ok"]
    ELSE [w EXCEPT !.res = "Ok"]

\* handle_read_from_host without the subtraction from data_transfer_len
handle_read_from_host_keeps_len(w) ==
    IF ~status_present(w)
    THEN Let(read_packet(w), LAMBDA a :
         IF a.res # "Ok" THEN a ELSE check_end_data_transfer(a))
    ELSE check_end_data_transfer(w)

handle_read_from_host(w) ==
    IF ~status_present(w)
    THEN Let(read_packet(w), LAMBDA a :
         IF a.res # "Ok" THEN a
         ELSE Let([a EXCEPT !.cbw.data_transfer_len = SatSub(@, a.n)],
                  check_end_data_transfer))
    ELSE check_end_data_transfer(w)

\* full_packet_or_zero that asks for a full packet only of an empty buffer
full_packet_or_zero_any_bytes(w) ==
    LET full_packet_expected == w.cbw.data_transfer_len >= w.ps /\ ~status_present(w)
        full_packet == available_read(w) > 0
    IN full_packet \/ ~full_packet_expected

full_packet_or_zero(w) ==
    LET full_packet_expected == w.cbw.data_transfer_len >= w.ps /\ ~status_present(w)
        full_packet == available_read(w) >= w.ps
    IN full_packet \/ ~full_packet_expected

handle_write_to_host(w) ==
    IF full_packet_or_zero(w)
    THEN IF available_read(w) > 0
         THEN Let(write_packet(w), LAMBDA a :
              IF a.res # "Ok" THEN a
              ELSE Let([a EXCEPT !.cbw.data_transfer_len = SatSub(@, a.n)],
                       check_end_data_transfer))
         ELSE check_end_data_transfer(w)
    ELSE [w EXCEPT !.res = "FullPacketExpected"]

handle_no_data_transfer(w) == check_end_data_transfer(w)

\* try_parse_cbw: takes 31 bytes out of the buffer, checks the signature, parses
try_parse_cbw(w) ==
    Let(SubSeq(Unread(w), 1, CBW_LEN), LAMBDA raw_cbw :
    LET a == [w EXCEPT !.rpos = w.rpos + Min(CBW_LEN, available_read(w))]
    IN IF SubSeq(raw_cbw, 1, 4) # CBW_SIGNATURE_LE
       THEN [w |-> a, ok |-> FALSE, cbw |-> DefaultCbw]
       ELSE Let(CbwFromLeBytes(Slice(raw_cbw, 4, CBW_LEN)), LAMBDA r :
            [w |-> a, ok |-> r.ok, cbw |-> r.cbw]))

DataState(direction) ==
    CASE direction = "Out" -> "DataTransferFromHost"
      [] direction = "In" -> "DataTransferToHost"
      [] OTHER -> "DataTransferNoData"

start_data_transfer(w, c) ==
    LET a == enter_state(w, DataState(c.direction))
        d == IF c.direction = "NotExpected" THEN [c EXCEPT !.data_transfer_len = 0] ELSE c
    IN [a EXCEPT !.cbw = d,
                 !.g = [NoHistory EXCEPT !.tag0 = c.tag, !.dtl0 = c.data_transfer_len,
                                         !.dir0 = c.direction, !.bad = w.g.bad,
                                         !.stray = w.g.stray,
                                         !.entry = available_read(w),
                                         !.edges = a.g.edges \ w.g.edges]]

\* reset that leaves the endpoints as they are
reset_keeps_stall(w) == enter_state(w, "Idle")

\* Transport::reset
reset(w) ==
    Let(enter_state(unstall_eps(w), "Idle"), LAMBDA a :
    [a EXCEPT !.g.edges = w.g.edges \cup {<<e[1], "Reset", e[3]>> : e \in @ \ w.g.edges}])

\* The Err(_) arm without the reset: the bytes stay in the buffer
invalid_cbw_keeps_bytes(w) == enter_state(stall_eps(w), "CommandTransfer")

\* The Err(_) arm of handle_read_cbw (spec. 6.6.1)
invalid_cbw(w) == reset(stall_eps(w))

handle_read_cbw(w) ==
    Let(read_packet(w), LAMBDA a :
    IF a.res # "Ok" THEN a
    ELSE IF available_read(a) >= CBW_LEN
         THEN Let(try_parse_cbw(a), LAMBDA r :
              IF r.ok THEN [start_data_transfer(r.w, r.cbw) EXCEPT !.res = "Ok"]
              ELSE [invalid_cbw(r.w) EXCEPT !.res = "Ok", !.g.bad = @ + 1])
         ELSE [enter_state(a, "CommandTransfer") EXCEPT !.res = "Ok"])

\* read that takes the packets of the next CBW in the status phase already
read_in_status_phase(w) ==
    CASE w.state \in {"Idle", "CommandTransfer", "StatusTransfer"} -> handle_read_cbw(w)
      [] w.state = "DataTransferFromHost" -> handle_read_from_host(w)
      [] OTHER -> [w EXCEPT !.res = "Ok"]

\* BulkOnly::read
read(w) ==
    CASE w.state \in {"Idle", "CommandTransfer"} -> handle_read_cbw(w)
      [] w.state = "DataTransferFromHost" -> handle_read_from_host(w)
      [] OTHER -> [w EXCEPT !.res = "Ok"]

\* BulkOnly::write
write(w) ==
    CASE w.state = "StatusTransfer" -> handle_write_csw(w)
      [] w.state = "DataTransferToHost" -> handle_write_to_host(w)
      [] w.state = "DataTransferNoData" -> handle_no_data_transfer(w)
      [] OTHER -> [w EXCEPT !.res = "Ok"]

\* set_status that latches the status and leaves the data phase running
set_status_latches_only(w, status) ==
    [w EXCEPT !.cs = status, !.g.latched = status, !.res = "Ok"]

\* BulkOnly::set_status; end_data_transfer().unwrap() panics on an Err
set_status(w, status) ==
    Let([w EXCEPT !.cs = status, !.g.latched = status], LAMBDA a :
    IF status \in {"PhaseError", "Failed"}
    THEN Let(end_data_transfer(a), LAMBDA b :
         IF b.res # "Ok" THEN [b EXCEPT !.panicked = TRUE] ELSE b)
    ELSE [a EXCEPT !.res = "Ok"])

\* BulkOnly::get_command is Some
has_command(w) == w.state \notin {"Idle", "CommandTransfer"}

\* BulkOnly::read_data(dst) with dst.len() = len; copy_from_slice panics when the
\* unread bytes are more than dst takes
read_data(w, len) ==
    IF w.state # "DataTransferFromHost" THEN [w EXCEPT !.res = "InvalidState", !.n = 0]
    ELSE LET size == Min(len, available_read(w))
         IN IF size # available_read(w) THEN [w EXCEPT !.panicked = TRUE]
            ELSE [w EXCEPT !.rpos = w.rpos + size, !.n = size, !.res = "Ok",
                           !.g.got = @ \o SubSeq(Unread(w), 1, size)]

\* write_data that does not cut src to the residue
write_data_whole_src(w, src) ==
    IF w.state # "DataTransferToHost" THEN [w EXCEPT !.res = "InvalidState", !.n = 0]
    ELSE IF ~status_present(w)
    THEN Let(buf_write(w, src),
             LAMBDA a : [a EXCEPT !.res = "Ok", !.g.accepted = @ \o SubSeq(src, 1, a.n)])
    ELSE [w EXCEPT !.res = "InvalidState", !.n = 0]

\* write_data that does not look at the latched status
write_data_after_status(w, src) ==
    IF w.state # "DataTransferToHost" THEN [w EXCEPT !.res = "InvalidState", !.n = 0]
    ELSE Let(buf_write(w, SubSeq(src, 1, Min(Len(src), w.cbw.data_transfer_len))),
             LAMBDA a : [a EXCEPT !.res = "Ok", !.g.accepted = @ \o SubSeq(src, 1, a.n)])

\* BulkOnly::write_data(src)
write_data(w, src) ==
    IF w.state # "DataTransferToHost" THEN [w EXCEPT !.res = "InvalidState", !.n = 0]
    ELSE IF ~status_present(w)
    THEN Let(buf_write(w, SubSeq(src, 1, Min(Len(src), w.cbw.data_transfer_len))),
             LAMBDA a : [a EXCEPT !.res = "Ok", !.g.accepted = @ \o SubSeq(src, 1, a.n)])
    ELSE [w EXCEPT !.res = "InvalidState", !.n = 0]

\* try_write_data_all that keeps the part of src that fits when it overflows
try_write_data_all_partial(w, src) ==
    IF w.state # "DataTransferToHost" THEN [w EXCEPT !.res = "InvalidState", !.n = 0]
    ELSE IF ~status_present(w)
    THEN Let(write_all(w, Len(src), "IoBufferOverflow", [fn |-> "CopyFill", src |-> src]),
             LAMBDA a : IF a.res = "Ok" THEN [a EXCEPT !.g.accepted = @ \o src]
                        ELSE [buf_write(a, src) EXCEPT !.res = "IoBufferOverflow"])
    ELSE [w EXCEPT !.res = "InvalidState", !.n = 0]

\* BulkOnly::try_write_data_all(src)
try_write_data_all(w, src) ==
    IF w.state # "DataTransferToHost" THEN [w EXCEPT !.res = "InvalidState", !.n = 0]
    ELSE IF ~status_present(w)
    THEN Let(write_all(w, Len(src), "IoBufferOverflow", [fn |-> "CopyFill", src |-> src]),
             LAMBDA a : IF a.res = "Ok" THEN [a EXCEPT !.g.accepted = @ \o src] ELSE a)
    ELSE [w EXCEPT !.res = "InvalidState", !.n = 0]

-----------------------------------------------------------------------------
(* BulkOnly::new                                                            *)

\* new that compares the buffer with the CBW alone
new_without_packet_check(ps, lun, buf_len) ==
    IF lun > MAX_LUN_LIMIT THEN "InvalidMaxLun"
    ELSE IF buf_len < CBW_LEN THEN "BufferTooSmall"
    ELSE "Ok"

new(ps, lun, buf_len) ==
    IF lun > MAX_LUN_LIMIT THEN "InvalidMaxLun"
    ELSE IF buf_len < CBW_LEN \/ buf_len < ps THEN "BufferTooSmall"
    ELSE "Ok"

-----------------------------------------------------------------------------
(* The host and the callback: what they send                                *)

\* A transfer cut into packets of at most ps bytes (DummyEp::write_bytes)
RECURSIVE Chunks(_, _)
Chunks(bytes, ps) ==
    IF bytes = <<>> THEN <<>>
    ELSE <<SubSeq(bytes, 1, Min(ps, Len(bytes)))>>
             \o Chunks(SubSeq(bytes, Min(ps, Len(bytes)) + 1, Len(bytes)), ps)

\* The k-th data byte the host sends, and the k-th the callback offers (k from 1)
HostByte(k) == 100 + (k % 50)
DevByte(k) == 200 + (k % 50)

\* Cbw::into_bytes of the test bus, with every field settable
CbwBytes(c) ==
    (IF c.sig THEN CBW_SIGNATURE_LE ELSE <<85, 83, 66, 88>>)
        \o to_le_bytes(c.tag) \o to_le_bytes(c.len) \o <<c.flags, c.lun, c.cb_len>>
        \o <<c.op>> \o Zeros(15)

\* The CBWs the host sends: the valid ones, and three invalid ones
DataLens == {0, 40}
Cbws ==
    {c \in [sig : BOOLEAN, tag : {258}, len : DataLens, flags : {0, 128}, lun : {0},
            cb_len : {0, 10, 17}, op : {40}] :
        (~c.sig \/ c.cb_len # 10) =>
            (c.len = 40 /\ c.flags = 0 /\ (~c.sig => c.cb_len = 10))}

HostSends == {12, 40}   \* lengths of the host's data-out transfers
WriteLens == {4, 40}    \* src lengths the callback hands to write_data
TryLens == {40}         \* src lengths the callback hands to try_write_data_all
ReadLens == {4, 64}     \* dst lengths the callback hands to read_data
Statuses == {"Passed", "Failed", "PhaseError"}

-----------------------------------------------------------------------------
(* The state as one record, and back                                        *)

World ==
    [state |-> state, cbw |-> cbw, cs |-> cs, inner |-> inner, rpos |-> rpos,
     wpos |-> wpos, in_q |-> in_q, out_q |-> out_q, in_stalled |-> in_stalled,
     out_stalled |-> out_stalled, panicked |-> panicked, res |-> "Ok", n |-> 0,
     g |-> g, ps |-> packet_size]

Apply(w) ==
    /\ state' = w.state
    /\ cbw' = w.cbw
    /\ cs' = w.cs
    /\ inner' = w.inner
    /\ rpos' = w.rpos
    /\ wpos' = w.wpos
    /\ in_q' = w.in_q
    /\ out_q' = w.out_q
    /\ in_stalled' = w.in_stalled
    /\ out_stalled' = w.out_stalled
    /\ panicked' = w.panicked
    /\ g' = w.g

Init ==
    /\ \E c \in Configs :
          /\ packet_size = c[1]
          /\ max_lun = c[2]
          /\ built = new(c[1], c[2], c[3])
          /\ inner = Zeros(c[3])
    /\ state = "Idle"
    /\ cbw = DefaultCbw
    /\ cs = "None"
    /\ rpos = 0
    /\ wpos = 0
    /\ in_q = <<>>
    /\ out_q = <<>>
    /\ in_stalled = FALSE
    /\ out_stalled = FALSE
    /\ pc = "out"
    /\ cmd = FALSE
    /\ used = 0
    /\ panicked = FALSE
    /\ res = "Ok"
    /\ rd = "Ok"
    /\ wr = "Ok"
    /\ pollRes = "Ok"
    /\ host = [out |-> FALSE, bytes |-> 0, tag |-> 0]
    /\ g = NoHistory

Running == built = "Ok" /\ ~panicked

-----------------------------------------------------------------------------
(* Scsi::poll (subclass/scsi.rs)                                            *)

\* map_ignore that lets every error through
map_ignore_nothing(r) == IF r = "Ok" THEN "Ok" ELSE "Err"

map_ignore(r) ==
    IF r \in {"Ok", "WouldBlock", "IoBufferOverflow", "InvalidState", "FullPacketExpected"}
    THEN "Ok" ELSE "Err"

\* poll up to the first call of the callback
\* scsi::parse_cb(cb): the command of the opcode cb[0].  An arm that reads a byte
\* behind the end of cb panics (index out of bounds); `last` is the highest index
\* the arm of the opcode reads.
parse_cb(cb) ==
    LET op == cb[1]
        kind == CASE op = 0 -> "TestUnitReady"
                  [] op = 18 -> "Inquiry"
                  [] op = 3 -> "RequestSense"
                  [] op = 37 -> "ReadCapacity10"
                  [] op = 158 -> "ReadCapacity16"
                  [] op \in {40, 136} -> "Read"
                  [] op = 42 -> "Write"
                  [] op = 26 -> "ModeSense6"
                  [] op = 90 -> "ModeSense10"
                  [] op = 35 -> "ReadFormatCapacities"
                  [] OTHER -> "Unknown"
        last == CASE op \in {18, 3, 26} -> 4            \* cb[4]
                  [] op \in {40, 42, 90, 35} -> 8        \* cb[8]
                  [] op \in {158, 136} -> 13             \* cb[13], cb[10..14]
                  [] OTHER -> 0
    IN IF last >= Len(cb) THEN "panic" ELSE kind

\* poll's `let kind = parse_cb(raw_cb.bytes)` with the block get_command exposes
Parsed(w) ==
    Let(parse_cb(Slice(w.cbw.block, 0, w.cbw.block_len)), LAMBDA kind :
    [w EXCEPT !.g.parsed = kind, !.panicked = @ \/ kind = "panic"])

PollBegin ==
    /\ Running
    /\ pc = "out"
    /\ \E a \in {read(World)} : \E b \in {write(a)} :
          /\ rd' = a.res
          /\ IF map_ignore(a.res) = "Err"
             THEN Apply(a) /\ wr' = wr /\ pollRes' = "Err" /\ pc' = "out" /\ cmd' = FALSE
             ELSE IF map_ignore(b.res) = "Err"
             THEN Apply(b) /\ wr' = b.res /\ pollRes' = "Err" /\ pc' = "out"
                  /\ cmd' = FALSE
             ELSE IF has_command(b) /\ ~status_present(b)
             THEN Apply(Parsed(b)) /\ wr' = b.res /\ pollRes' = pollRes /\ pc' = "cb"
                  /\ cmd' = TRUE
             ELSE Apply(b) /\ wr' = b.res /\ pollRes' = "Ok" /\ pc' = "out"
                  /\ cmd' = FALSE
    /\ UNCHANGED <<built, packet_size, max_lun, host, used, res>>

InCallback == Running /\ pc = "cb" /\ cmd

CbFrame == UNCHANGED <<built, packet_size, max_lun, host, pc, pollRes, rd, wr>>

\* the state after a call of the callback, and the call's result
Called(r) == \E w \in {r} : Apply(w) /\ res' = w.res

\* the callback calls Command::write_data with the next len bytes it has
CbWriteData(len) ==
    /\ InCallback
    /\ used < MaxInputs
    /\ Called(write_data(World, [i \in 1..len |-> DevByte(Len(g.accepted) + i)]))
    /\ used' = used + 1
    /\ cmd' = cmd
    /\ CbFrame

\* the callback calls Command::try_write_data_all with the next len bytes it has
CbTryWriteAll(len) ==
    /\ InCallback
    /\ used < MaxInputs
    /\ Called(try_write_data_all(World, [i \in 1..len |-> DevByte(Len(g.accepted) + i)]))
    /\ used' = used + 1
    /\ cmd' = cmd
    /\ CbFrame

\* the callback calls Command::read_data with a dst of len bytes
CbReadData(len) ==
    /\ InCallback
    /\ used < MaxInputs
    /\ Called(read_data(World, len))
    /\ used' = used + 1
    /\ cmd' = cmd
    /\ CbFrame

\* the callback calls Command::pass, fail or fail_phase, which consume the Command
CbSetStatus(status) ==
    /\ InCallback
    /\ \E w \in {set_status(World, status)} : Apply(w)
    /\ cmd' = FALSE
    /\ UNCHANGED <<used, res>>
    /\ CbFrame

\* the loop of poll with a callback re-entered whenever write did not succeed
CbReturnRetriesAll ==
    /\ Running
    /\ pc = "cb"
    /\ \E a \in {write(World)} : \E b \in {read(a)} :
          /\ wr' = a.res
          /\ IF a.res # "Ok"
             THEN Apply(a) /\ rd' = rd /\ pc' = "cb" /\ cmd' = TRUE /\ pollRes' = pollRes
             ELSE Apply(b) /\ rd' = b.res /\ pc' = "out" /\ cmd' = FALSE
                  /\ pollRes' = map_ignore(b.res)
    /\ UNCHANGED <<built, packet_size, max_lun, host, used, res>>

\* the callback returns: poll drives write, re-enters the callback on
\* FullPacketExpected, and otherwise drives read and returns
CbReturn ==
    /\ Running
    /\ pc = "cb"
    /\ \E a \in {write(World)} : \E b \in {read(a)} :
          /\ wr' = a.res
          /\ IF a.res = "FullPacketExpected"
             THEN Apply(a) /\ rd' = rd /\ pc' = "cb" /\ cmd' = TRUE /\ pollRes' = pollRes
             ELSE IF map_ignore(a.res) = "Err"
             THEN Apply(a) /\ rd' = rd /\ pc' = "out" /\ cmd' = FALSE /\ pollRes' = "Err"
             ELSE Apply(b) /\ rd' = b.res /\ pc' = "out" /\ cmd' = FALSE
                  /\ pollRes' = map_ignore(b.res)
    /\ UNCHANGED <<built, packet_size, max_lun, host, used, res>>

-----------------------------------------------------------------------------
(* The host and the bus                                                     *)

DevFrame ==
    UNCHANGED <<built, packet_size, max_lun, state, cbw, cs, inner, rpos, wpos,
                in_stalled, out_stalled, pc, cmd, panicked, res, rd, wr, pollRes, g>>

\* The tag of the host's next CBW: every command gets a tag of its own
NextTag == IF host.tag = 0 THEN 258 ELSE host.tag + 257

\* the host starts a command, when none is in progress: it sends a CBW as one
\* bulk-out transfer
HostSendCbw(c) ==
    /\ Running
    /\ used < MaxInputs
    /\ state = "Idle"
    /\ out_q = <<>>
    /\ in_q = <<>>
    /\ out_q' = Chunks(CbwBytes([c EXCEPT !.tag = NextTag]), packet_size)
    /\ host' = [out |-> c.sig /\ c.flags < 128 /\ c.len > 0, bytes |-> 0, tag |-> NextTag]
    /\ used' = used + 1
    /\ in_q' = in_q
    /\ DevFrame

\* the host sends len data bytes of a data-out command as one bulk-out transfer
HostSendData(len) ==
    /\ Running
    /\ host.out
    /\ used < MaxInputs
    /\ out_q = <<>>
    /\ out_q' = Chunks([i \in 1..len |-> HostByte(host.bytes + i)], packet_size)
    /\ host' = [host EXCEPT !.bytes = @ + len]
    /\ in_q' = in_q
    /\ used' = used + 1
    /\ DevFrame

\* the host takes a packet from the IN endpoint
HostRecv ==
    /\ built = "Ok"
    /\ in_q # <<>>
    /\ in_q' = Tail(in_q)
    /\ UNCHANGED <<out_q, host, used>>
    /\ DevFrame

\* a bus reset: usb-device calls UsbClass::reset between two polls
BusReset ==
    /\ Running
    /\ pc = "out"
    /\ used < MaxInputs
    /\ Apply(reset(World))
    /\ used' = used + 1
    /\ UNCHANGED <<built, packet_size, max_lun, pc, cmd, pollRes, host, res, rd, wr>>

\* A session of the device with its host on a bus that is not reset
Session ==
    \/ PollBegin
    \/ \E len \in WriteLens : CbWriteData(len)
    \/ \E len \in TryLens : CbTryWriteAll(len)
    \/ \E len \in ReadLens : CbReadData(len)
    \/ \E status \in Statuses : CbSetStatus(status)
    \/ CbReturn
    \/ \E c \in Cbws : HostSendCbw(c)
    \/ \E len \in HostSends : HostSendData(len)
    \/ HostRecv

Next ==
    \/ Session
    \/ BusReset

Spec == Init /\ [][Next]_vars

\* The application calls poll again and again, a callback that was entered
\* returns, and the host takes the packets the IN endpoint holds
Fairness == WF_vars(PollBegin) /\ WF_vars(CbReturn) /\ WF_vars(HostRecv)

\* A session without bus resets, under that scheduling
FairSpec == Init /\ [][Session]_vars /\ Fairness

-----------------------------------------------------------------------------
(* Streaming: device-to-host commands served by a callback that, each time  *)
(* it is invoked, writes as many of the remaining bytes as write_data takes *)
(* and calls pass once it has written them all                              *)

StreamLens == {40, 72}
StreamCbws ==
    [sig : {TRUE}, tag : {258}, len : StreamLens, flags : {128}, lun : {0},
     cb_len : {10}, op : {40}]

CbStream ==
    /\ InCallback
    /\ state = "DataTransferToHost"
    /\ \E a \in {write_data(World, [i \in 1..(g.dtl0 - Len(g.accepted)) |->
                                       DevByte(Len(g.accepted) + i)])} :
          /\ res' = a.res
          /\ IF Len(a.g.accepted) = g.dtl0
             THEN \E b \in {set_status(a, "Passed")} : Apply(b)
             ELSE Apply(a)
    /\ cmd' = FALSE
    /\ used' = used
    /\ CbFrame

\* the streaming callback returns when its body has run
StreamReturn == ~cmd /\ CbReturn

StreamNext ==
    \/ PollBegin
    \/ CbStream
    \/ StreamReturn
    \/ \E c \in StreamCbws : HostSendCbw(c)
    \/ HostRecv

StreamSpec ==
    Init /\ [][StreamNext]_vars
         /\ WF_vars(PollBegin) /\ WF_vars(CbStream) /\ WF_vars(StreamReturn)
         /\ WF_vars(HostRecv)

-----------------------------------------------------------------------------
(* A vendor-specific subclass: BulkOnly is a public type, and a class that  *)
(* owns one calls its public functions in whatever order it likes.  Here pc *)
(* holds the name of the function called last, read and write aside, and    *)
(* res its result.                                                          *)

ApiFrame == UNCHANGED <<built, packet_size, max_lun, host, cmd, pollRes, rd, wr>>

\* BulkOnly::read
ApiRead ==
    /\ Running
    /\ Apply(read(World))
    /\ UNCHANGED <<pc, res, used>>
    /\ ApiFrame

\* BulkOnly::write
ApiWrite ==
    /\ Running
    /\ Apply(write(World))
    /\ UNCHANGED <<pc, res, used>>
    /\ ApiFrame

\* BulkOnly::write_data with the next len bytes the class has
ApiWriteData(len) ==
    /\ Running
    /\ used < MaxInputs
    /\ Called(write_data(World, [i \in 1..len |-> DevByte(Len(g.accepted) + i)]))
    /\ pc' = "write_data"
    /\ used' = used + 1
    /\ ApiFrame

\* BulkOnly::try_write_data_all with the next len bytes the class has
ApiTryWriteAll(len) ==
    /\ Running
    /\ used < MaxInputs
    /\ Called(try_write_data_all(World, [i \in 1..len |-> DevByte(Len(g.accepted) + i)]))
    /\ pc' = "try_write_data_all"
    /\ used' = used + 1
    /\ ApiFrame

\* BulkOnly::read_data with a dst of len bytes
ApiReadData(len) ==
    /\ Running
    /\ used < MaxInputs
    /\ Called(read_data(World, len))
    /\ pc' = "read_data"
    /\ used' = used + 1
    /\ ApiFrame

\* BulkOnly::set_status
ApiSetStatus(status) ==
    /\ Running
    /\ used < MaxInputs
    /\ \E w \in {set_status(World, status)} : Apply(w)
    /\ res' = "Ok"
    /\ pc' = "set_status"
    /\ used' = used + 1
    /\ ApiFrame

\* BulkOnly::reset
ApiReset ==
    /\ Running
    /\ used < MaxInputs
    /\ Apply(reset(World))
    /\ res' = "Ok"
    /\ pc' = "reset"
    /\ used' = used + 1
    /\ ApiFrame

ApiNext ==
    \/ ApiRead
    \/ ApiWrite
    \/ \E len \in WriteLens : ApiWriteData(len)
    \/ \E len \in TryLens : ApiTryWriteAll(len)
    \/ \E len \in ReadLens : ApiReadData(len)
    \/ \E status \in Statuses : ApiSetStatus(status)
    \/ ApiReset
    \/ \E c \in Cbws : HostSendCbw(c)
    \/ \E len \in HostSends : HostSendData(len)
    \/ HostRecv

\* The class builds its transport with one of these <<packet size, max_lun,
\* buffer length>>
ApiConfigs == {<<8, 0, 32>>, <<16, 0, 40>>, <<64, 0, 64>>}

ApiInit == Init /\ <<packet_size, max_lun, Len(inner)>> \in ApiConfigs

ApiSpec == ApiInit /\ [][ApiNext]_vars

-----------------------------------------------------------------------------
(* A bus that can hand the OUT endpoint a packet longer than the endpoint's *)
(* max packet size: out_ep.read then fails with UsbError::BufferOverflow,   *)
(* the one error of the USB stack that poll can meet here.                  *)

HostSendLong ==
    /\ Running
    /\ used < MaxInputs
    /\ out_q = <<>>
    /\ out_q' = <<[i \in 1..(packet_size + 1) |-> HostByte(i)]>>
    /\ used' = used + 1
    /\ UNCHANGED <<in_q, host>>
    /\ DevFrame

\* a host that addresses logical unit 3 of a device that has answered Get Max LUN
\* with 0: a CBW with bCBWLUN = 3 and no data phase, sent as HostSendCbw sends
LunCbw ==
    [sig |-> TRUE, tag |-> 258, len |-> 0, flags |-> 0, lun |-> 3, cb_len |-> 10,
     op |-> 40]

HostSendLun ==
    /\ Running
    /\ used < MaxInputs
    /\ state = "Idle"
    /\ out_q = <<>>
    /\ in_q = <<>>
    /\ out_q' = Chunks(CbwBytes([LunCbw EXCEPT !.tag = NextTag]), packet_size)
    /\ host' = [out |-> FALSE, bytes |-> 0, tag |-> NextTag]
    /\ used' = used + 1
    /\ in_q' = in_q
    /\ DevFrame

\* a host that sends an INQUIRY whose command block is one byte long: a CBW with
\* bCBWCBLength = 1, sent as HostSendCbw sends
ShortCbw ==
    [sig |-> TRUE, tag |-> 258, len |-> 0, flags |-> 0, lun |-> 0, cb_len |-> 1,
     op |-> 18]

HostSendShort ==
    /\ Running
    /\ used < MaxInputs
    /\ state = "Idle"
    /\ out_q = <<>>
    /\ in_q = <<>>
    /\ out_q' = Chunks(CbwBytes([ShortCbw EXCEPT !.tag = NextTag]), packet_size)
    /\ host' = [out |-> FALSE, bytes |-> 0, tag |-> NextTag]
    /\ used' = used + 1
    /\ in_q' = in_q
    /\ DevFrame

\* a host that delivers a data-in CBW in a transfer 9 bytes longer than the CBW:
\* full packets only where the packet size is 8, one 40-byte packet where it is 64
PaddedCbw ==
    [sig |-> TRUE, tag |-> 258, len |-> 40, flags |-> 128, lun |-> 0, cb_len |-> 10,
     op |-> 40]

HostSendPadded ==
    /\ Running
    /\ used < MaxInputs
    /\ state = "Idle"
    /\ out_q = <<>>
    /\ in_q = <<>>
    /\ out_q' = Chunks(CbwBytes([PaddedCbw EXCEPT !.tag = NextTag])
                           \o [i \in 1..9 |-> HostByte(i)], packet_size)
    /\ host' = [out |-> FALSE, bytes |-> 0, tag |-> NextTag]
    /\ used' = used + 1
    /\ in_q' = in_q
    /\ DevFrame

FaultNext ==
    \/ Session
    \/ HostSendLong
    \/ HostSendLun
    \/ HostSendShort
    \/ HostSendPadded

FaultSpec == ApiInit /\ [][FaultNext]_vars

-----------------------------------------------------------------------------
(* The IO buffer on its own, driven as the unit tests of buffer.rs drive    *)
(* it: writes of any length, closures that answer any count.  Here pc holds *)
(* the name of the operation called last.                                   *)

BufCaps == {4, 5}               \* lengths of the array the Buffer is built on
BufLens == {0, 3, 4, 5, 6}      \* lengths of data, and max_count of write_all
BufCounts == {0, 2, 5}          \* counts the closures answer

\* The bytes of the call numbered used: they tell calls and positions apart
BufData(len) == [i \in 1..len |-> 10 * (used + 1) + i]

\* Buffer::new(inner); the transport around it is left as built and unused
BufInit ==
    /\ \E cap \in BufCaps : inner = Zeros(cap)
    /\ rpos = 0
    /\ wpos = 0
    /\ packet_size = 8
    /\ max_lun = 0
    /\ built = "Ok"
    /\ state = "Idle"
    /\ cbw = DefaultCbw
    /\ cs = "None"
    /\ in_q = <<>>
    /\ out_q = <<>>
    /\ in_stalled = FALSE
    /\ out_stalled = FALSE
    /\ pc = "new"
    /\ cmd = FALSE
    /\ used = 0
    /\ panicked = FALSE
    /\ res = "Ok"
    /\ rd = "Ok"
    /\ wr = "Ok"
    /\ pollRes = "Ok"
    /\ host = [out |-> FALSE, bytes |-> 0, tag |-> 0]
    /\ g = NoHistory

\* The call that has just returned r, noted in the history
Noted(r, len, count) ==
    [r EXCEPT !.g.call = [len |-> len, count |-> count, n |-> r.n, res |-> r.res]]

\* The bytes a writer got accepted by the call that has just returned r: the
\* first n of data
Put(r, data) ==
    [r EXCEPT !.g.fifo.put = @ \o SubSeq(data, 1, Min(r.n, Len(data))),
              !.g.fifo.over = @ \/ r.n > Len(data)]

\* The bytes a reader consumed by the call that has just returned r: the first n
\* of the slice it was handed, the unread bytes of w0
Took(r, w0) == [r EXCEPT !.g.fifo.took = @ \o SubSeq(Unread(w0), 1, r.n)]

BufFrame == UNCHANGED <<built, packet_size, max_lun, host, cmd, pollRes, rd, wr>>

\* Buffer::write(data)
BufWrite(len) ==
    /\ used < MaxInputs
    /\ Called(Put(Noted([buf_write(World, BufData(len)) EXCEPT !.res = "Ok"], len, 0),
                  BufData(len)))
    /\ pc' = "write"
    /\ used' = used + 1
    /\ BufFrame

\* Buffer::write_all(max_count, (), f) with f writing max_count bytes at most
\* and answering count
BufWriteAll(max_count, count) ==
    /\ used < MaxInputs
    /\ Called(Put(Noted(write_all(World, max_count, "Overflow",
                                  [fn |-> "TestFill", count |-> count,
                                   bytes |-> BufData(max_count)]),
                        max_count, count),
                  BufData(max_count)))
    /\ pc' = "write_all"
    /\ used' = used + 1
    /\ BufFrame

\* Buffer::read(f) with f answering count
BufRead(count) ==
    /\ used < MaxInputs
    /\ Called(Took(Noted(buf_read(World, [fn |-> "TestDrain", count |-> count]), 0, count),
                   World))
    /\ pc' = "read"
    /\ used' = used + 1
    /\ BufFrame

\* Buffer::clean
BufClean ==
    /\ used < MaxInputs
    /\ rpos # 0 \/ wpos # 0
    /\ Called([clean(World) EXCEPT !.res = "Ok", !.g.fifo = NoHistory.fifo])
    /\ pc' = "clean"
    /\ used' = used + 1
    /\ BufFrame

BufNext ==
    \/ \E len \in BufLens : BufWrite(len)
    \/ \E max_count \in BufLens, count \in BufCounts : BufWriteAll(max_count, count)
    \/ \E count \in BufCounts : BufRead(count)
    \/ BufClean

BufSpec == BufInit /\ [][BufNext]_vars

-----------------------------------------------------------------------------
(* BulkOnly::new on its own: the arguments are drawn first, then new is     *)
(* called with them.  Before the call no transport exists.                  *)

NewPacketSizes == {8, 16, 32, 64}
NewMaxLuns == {0, 1, 15, 16, 255}
NewBufLens == {0, 30, 31, 32, 33, 63, 64, 65}

NewInit ==
    /\ packet_size \in NewPacketSizes
    /\ max_lun \in NewMaxLuns
    /\ \E len \in NewBufLens : inner = Zeros(len)
    /\ built = "Unbuilt"
    /\ state = "Unbuilt"
    /\ cs = "Unbuilt"
    /\ cbw = DefaultCbw
    /\ rpos = 0
    /\ wpos = 0
    /\ in_q = <<>>
    /\ out_q = <<>>
    /\ in_stalled = FALSE
    /\ out_stalled = FALSE
    /\ pc = "args"
    /\ cmd = FALSE
    /\ used = 0
    /\ panicked = FALSE
    /\ res = "Ok"
    /\ rd = "Ok"
    /\ wr = "Ok"
    /\ pollRes = "Ok"
    /\ host = [out |-> FALSE, bytes |-> 0, tag |-> 0]
    /\ g = NoHistory

\* BulkOnly::new(alloc, packet_size, max_lun, buf)
New ==
    /\ pc = "args"
    /\ built' = new(packet_size, max_lun, Len(inner))
    /\ IF built' = "Ok"
       THEN /\ state' = "Idle"
            /\ cbw' = DefaultCbw
            /\ cs' = "None"
            /\ rpos' = 0
            /\ wpos' = 0
       ELSE UNCHANGED <<state, cbw, cs, rpos, wpos>>
    /\ pc' = "new"
    /\ UNCHANGED <<packet_size, max_lun, inner, in_q, out_q, in_stalled, out_stalled,
                   cmd, used, panicked, res, rd, wr, pollRes, host, g>>

NewNext == New

NewSpec == NewInit /\ [][NewNext]_vars

\* CSW::from_bytes of the test bus: it panics unless it is given 13 bytes that end
\* in a status code
CswFromBytes(bytes) ==
    IF Len(bytes) # CSW_LEN \/ bytes[Len(bytes)] \notin {0, 1, 2}
    THEN [data_transfer_len |-> 0, status |-> "panic"]
    ELSE [data_transfer_len |-> from_le_bytes(Slice(bytes, 8, 12)),
          status |-> CASE bytes[13] = 0 -> "Passed"
                       [] bytes[13] = 1 -> "Failed"
                       [] bytes[13] = 2 -> "PhaseError"]

\* The dCSWTag field of a whole CSW, which from_bytes leaves out
CswTag(bytes) == from_le_bytes(Slice(bytes, 4, 8))

\* The dCSWDataResidue field of a whole CSW
CswResidue(csw) == from_le_bytes(SubSeq(csw, 9, 12))

\* The CSW of the current command that carries the given status
CswOf(status) ==
    CSW_SIGNATURE_LE \o to_le_bytes(g.tag0)
        \o to_le_bytes(SatSub(g.dtl0, g.moved)) \o <<StatusByte(status)>>

\* C1: the residue of the CSW sent for an accepted command is the command's
\* data_transfer_len less the bytes that crossed the bulk endpoints in its data
\* phase, and zero when more bytes crossed than that.
C1_Residue ==
    Len(g.cswOut) = CSW_LEN => CswResidue(g.cswOut) = SatSub(g.dtl0, g.moved)

\* a CSW went out after a part of the data did
C1_Witness ==
    /\ Len(g.cswOut) = CSW_LEN
    /\ g.moved > 0
    /\ g.moved < g.dtl0
    /\ CswResidue(g.cswOut) = g.dtl0 - g.moved

\* C2: in a device-to-host data phase, every byte the callback wrote into the IO
\* buffer before it latched a status has been sent to the host when the first
\* byte of the CSW is sent, and the residue of the CSW is data_transfer_len less
\* the bytes written.
C2_WrittenBytesSentBeforeCsw ==
    (g.dir0 = "In" /\ g.cswOut # <<>>) =>
        /\ g.dataOut = g.accepted
        /\ Len(g.cswOut) = CSW_LEN =>
               CswResidue(g.cswOut) = SatSub(g.dtl0, Len(g.accepted))



\* The host has sent the whole data-out transfer, the IO buffer holds all of it,
\* and the callback has called pass without read_data
PassedUnread ==
    /\ state = "DataTransferFromHost"
    /\ cs = "Passed"
    /\ g.dtl0 > 0
    /\ Len(g.sent) = g.dtl0
    /\ g.got = <<>>
    /\ available_read(World) = g.dtl0

\* The host has the whole CSW {residue 0, Passed} and the transport is Idle
PassedDelivered ==
    /\ state = "Idle"
    /\ in_q = <<>>
    /\ g.cswOut = CSW_SIGNATURE_LE \o to_le_bytes(g.tag0) \o to_le_bytes(0) \o <<0>>

\* C3: once the host has sent all data_transfer_len bytes of a host-to-device
\* command, the IO buffer holds them and the callback has called pass without
\* read_data, repeated polls deliver the CSW {residue 0, Passed} and the
\* transport returns to Idle.
C3_PassCompletes == PassedUnread ~> PassedDelivered

IsPrefix(s, t) == Len(s) <= Len(t) /\ s = SubSeq(t, 1, Len(s))

\* The bytes of the CSW sent so far, followed by those still in the IO buffer
CswSentAndQueued == g.cswOut \o Unread(World)

C5_InvalidCbwLeavesStall ==
    [][g'.bad > g.bad => (in_stalled' /\ out_stalled' /\ state' = "Idle")]_vars

\* The states in which this state's next call of BulkOnly::read runs: poll calls
\* read first, and after the callback it calls read behind write
ReadCalls ==
    IF ~Running THEN {}
    ELSE IF pc = "out" THEN {World}
    ELSE {a \in {write(World)} : a.res # "FullPacketExpected" /\ map_ignore(a.res) = "Ok"}

\* C6: an invalid CBW is not reported as an error and makes no command: the
\* read() that meets it returns Ok, writes nothing to the IN endpoint, leaves
\* get_command() None so that poll does not invoke the callback, and leaves the
\* IO buffer empty.
C6_InvalidCbwIsSilent ==
    \A w \in ReadCalls : \E a \in {read(w)} :
        a.g.bad > w.g.bad =>
            /\ a.res = "Ok"
            /\ a.in_q = w.in_q
            /\ a.g.cswOut = w.g.cswOut
            /\ ~has_command(a)
            /\ ~(has_command(write(a)) /\ ~status_present(write(a)))
            /\ available_read(a) = 0
            /\ ~a.panicked

\* a poll has met an invalid CBW and returned Ok with the callback not entered
C6_Witness ==
    /\ g.bad > 0
    /\ state = "Idle"
    /\ rd = "Ok"
    /\ pollRes = "Ok"
    /\ pc = "out"
    /\ rpos = wpos
    /\ g.cswOut = <<>>
    /\ in_q = <<>>
    /\ out_q = <<>>

\* The OUT endpoint holds exactly the packets of a valid CBW, none of it read yet
ValidCbwSent ==
    /\ Running
    /\ state = "Idle"
    /\ \E c \in Cbws :
          /\ c.sig
          /\ c.cb_len \in MIN_CB_LEN..MAX_CB_LEN
          /\ out_q = Chunks(CbwBytes([c EXCEPT !.tag = host.tag]), packet_size)

\* C7: under every configuration the constructor accepts, a valid 31-byte CBW
\* that the host sent as consecutive bulk-out packets is read whole and parsed
\* by repeated polls: the transport enters a data-transfer state.
C7_ValidCbwIsParsed == ValidCbwSent ~> (state \in DataStates)

\* The states in which this state's next call of BulkOnly::write runs: poll calls
\* write behind read, and after the callback it calls write first
WriteCalls ==
    IF ~Running THEN {}
    ELSE IF pc = "out" THEN {a \in {read(World)} : map_ignore(a.res) = "Ok"}
    ELSE {World}

\* Two states of the device that differ at most in the result of the last call
SameButResult(a, b) == [a EXCEPT !.res = "Ok", !.n = 0] = [b EXCEPT !.res = "Ok", !.n = 0]

\* C8: in a device-to-host data phase with residue >= packet_size and no status
\* latched, write() emits no packet shorter than packet_size: with fewer than
\* packet_size bytes in the IO buffer it returns FullPacketExpected and leaves
\* the endpoint, the buffer, the residue and the state as they were.
C8_FullPacketRule ==
    \A w \in WriteCalls : \E a \in {write(w)} :
        (/\ w.state = "DataTransferToHost"
         /\ w.cbw.data_transfer_len >= w.ps
         /\ ~status_present(w)) =>
            /\ IsPrefix(w.in_q, a.in_q)
            /\ \A i \in (Len(w.in_q) + 1)..Len(a.in_q) : Len(a.in_q[i]) = w.ps
            /\ available_read(w) < w.ps =>
                   (a.res = "FullPacketExpected" /\ SameButResult(a, w))

\* write() has answered FullPacketExpected to a buffer that holds some bytes,
\* fewer than a packet, and poll is back in the callback
C8_Witness ==
    /\ pc = "cb"
    /\ cmd
    /\ wr = "FullPacketExpected"
    /\ state = "DataTransferToHost"
    /\ cs = "None"
    /\ cbw.data_transfer_len >= packet_size
    /\ available_read(World) > 0
    /\ available_read(World) < packet_size
    /\ g.dataOut = <<>>

\* A device-to-host command asks for more bytes than the IO buffer holds
LongStreamBegun ==
    /\ state = "DataTransferToHost"
    /\ g.dtl0 > Len(inner)

\* The host has all data_transfer_len bytes in the order the callback wrote them,
\* and behind them the whole CSW {residue 0, Passed}
StreamDelivered ==
    /\ g.dataOut = [i \in 1..g.dtl0 |-> DevByte(i)]
    /\ g.accepted = g.dataOut
    /\ g.cswOut = CSW_SIGNATURE_LE \o to_le_bytes(g.tag0) \o to_le_bytes(0) \o <<0>>
    /\ in_q = <<>>

\* C9: a device-to-host transfer longer than the IO buffer completes under the
\* streaming callback: repeated polls deliver exactly data_transfer_len bytes in
\* the order written, and then the CSW {residue 0, Passed}.
C9_StreamCompletes == LongStreamBegun ~> StreamDelivered

\* a transfer longer than the buffer has been delivered whole, with its CSW
C9_Witness ==
    /\ g.dtl0 > Len(inner)
    /\ g.dir0 = "In"
    /\ StreamDelivered
    /\ state = "Idle"

\* The endpoint a command's direction names
DirEp(dir) == IF dir = "In" THEN "in" ELSE "out"

\* C10: when a data phase ends with a residue that is not zero, the IN endpoint
\* is stalled if the direction was In and the OUT endpoint if it was Out, and
\* the stall is made before the first byte of the CSW is written to the IN
\* endpoint.
C10_StallBeforeCsw ==
    SatSub(g.dtl0, g.moved) > 0 =>
        /\ state = "StatusTransfer" => DirEp(g.dir0) \in g.stalls
        /\ g.cswOut # <<>> => DirEp(g.dir0) \in g.cswStall[1]

\* a device-to-host command that sent a part of its data was given its whole
\* CSW behind the stall of the IN endpoint
C10_Witness ==
    /\ g.dir0 = "In"
    /\ g.moved > 0
    /\ g.moved < g.dtl0
    /\ Len(g.cswOut) = CSW_LEN
    /\ g.cswStall = <<{"in"}>>
    /\ in_stalled

\* C11: the tag of every CSW sent is the tag of the CBW of the command it
\* answers: the command in progress is the one the host sent last, and the tag
\* field of its CSW is that CBW's tag.
C11_CswTag ==
    /\ state \in DataStates \cup {"StatusTransfer"} => g.tag0 = host.tag
    /\ Len(g.cswOut) >= 8 => SubSeq(g.cswOut, 5, 8) = to_le_bytes(g.tag0)

\* the host holds the whole CSW of its second command, with that command's tag
C11_Witness ==
    /\ Len(g.cswOut) = CSW_LEN
    /\ host.tag = 515
    /\ SubSeq(g.cswOut, 5, 8) = <<3, 2, 0, 0>>

\* a step in which the class calls write_data or try_write_data_all
WriteDataCall ==
    \/ \E len \in WriteLens : ApiWriteData(len)
    \/ \E len \in TryLens : ApiTryWriteAll(len)

\* C12: a call of write_data or try_write_data_all made once a status is
\* latched, or in any state other than DataTransferToHost, returns InvalidState
\* and leaves the buffer's contents and cursors, the residue, the state, the
\* status and the endpoints as they were.
C12_LatchedWriteRefused ==
    [][WriteDataCall /\ (status_present(World) \/ state # "DataTransferToHost")
          => /\ res' = "InvalidState"
             /\ UNCHANGED <<state, cbw, cs, inner, rpos, wpos, in_q, out_q,
                            in_stalled, out_stalled, panicked>>]_vars

\* write_data was refused in DataTransferToHost, with Passed latched and bytes
\* of the command still unread in the buffer
C12_Witness ==
    /\ pc = "write_data"
    /\ res = "InvalidState"
    /\ state = "DataTransferToHost"
    /\ cs = "Passed"
    /\ g.latched = "Passed"
    /\ available_read(World) > 0
    /\ cbw.data_transfer_len > 0

\* C13: read_data(dst) in DataTransferFromHost returns n = min(dst.len(),
\* available_read), hands the n oldest unread bytes to the callback and removes
\* exactly those from the buffer, whatever the length of dst, one shorter than
\* the buffered data included; in any other state it returns InvalidState and
\* changes nothing.
C13_ReadDataTakesOldest ==
    [][\A len \in ReadLens : CbReadData(len) =>
          IF state = "DataTransferFromHost"
          THEN \E n \in {Min(len, available_read(World))} :
                  /\ ~panicked'
                  /\ res' = "Ok"
                  /\ g'.got = g.got \o SubSeq(Unread(World), 1, n)
                  /\ Slice(inner', rpos', wpos')
                        = SubSeq(Unread(World), n + 1, available_read(World))
          ELSE /\ res' = "InvalidState"
               /\ UNCHANGED <<state, cbw, cs, inner, rpos, wpos, in_q, out_q,
                              in_stalled, out_stalled, panicked>>]_vars

\* C14: write_data(src) in DataTransferToHost with no status latched returns Ok
\* and appends exactly the first n bytes of src after the bytes already
\* buffered, n = min(src.len(), current residue, capacity - available_read).
C14_WriteDataAppends ==
    [][\A len \in WriteLens :
          CbWriteData(len) /\ state = "DataTransferToHost" /\ ~status_present(World)
          => \E n \in {Min(len, Min(cbw.data_transfer_len,
                                    Len(inner) - available_read(World)))} :
             \E src \in {[i \in 1..len |-> DevByte(Len(g.accepted) + i)]} :
                /\ res' = "Ok"
                /\ ~panicked'
                /\ Slice(inner', rpos', wpos') = Unread(World) \o SubSeq(src, 1, n)
                /\ g'.accepted = g.accepted \o SubSeq(src, 1, n)
                /\ UNCHANGED <<state, cbw, cs, in_q, out_q>>]_vars

\* after 32 bytes were sent of 40, write_data was called twice and took no more
\* than the residue of 8 allows each time, behind the bytes still unread, in a
\* buffer with room for more
C14_Witness ==
    /\ pc = "cb"
    /\ res = "Ok"
    /\ state = "DataTransferToHost"
    /\ cs = "None"
    /\ g.dtl0 = 40
    /\ g.moved = 32
    /\ cbw.data_transfer_len = 8
    /\ Len(g.accepted) = 44
    /\ Unread(World) = SubSeq(g.accepted, 33, 44)
    /\ Len(inner) = 32

\* C15: try_write_data_all(src) is all or nothing: in DataTransferToHost with
\* no status latched it either returns Ok with all of src appended behind the
\* unread bytes, or, when src is longer than the capacity less the unread
\* bytes, returns IoBufferOverflow with the sequence of unread bytes unchanged.
C15_TryWriteAllOrNothing ==
    [][\A len \in TryLens :
          CbTryWriteAll(len) /\ state = "DataTransferToHost" /\ ~status_present(World)
          => \E src \in {[i \in 1..len |-> DevByte(Len(g.accepted) + i)]} :
                /\ ~panicked'
                /\ UNCHANGED <<state, cbw, cs, in_q, out_q>>
                /\ IF len <= Len(inner) - available_read(World)
                   THEN /\ res' = "Ok"
                        /\ Slice(inner', rpos', wpos') = Unread(World) \o src
                        /\ g'.accepted = g.accepted \o src
                   ELSE /\ res' = "IoBufferOverflow"
                        /\ Slice(inner', rpos', wpos') = Unread(World)
                        /\ g'.accepted = g.accepted]_vars

\* try_write_data_all refused 40 bytes that did not fit behind 4 unread ones,
\* which are still the buffer's unread bytes
C15_Witness ==
    /\ pc = "cb"
    /\ res = "IoBufferOverflow"
    /\ state = "DataTransferToHost"
    /\ cs = "None"
    /\ Len(g.accepted) = 4
    /\ g.moved = 0
    /\ Unread(World) = g.accepted
    /\ rpos = 0
    /\ Len(inner) = 40

\* The transport after it has read every packet the OUT endpoint holds
RECURSIVE ReadAll(_)
ReadAll(w) ==
    IF w.out_q = <<>> \/ w.panicked THEN w
    ELSE Let(read(w), LAMBDA a : IF a.out_q = w.out_q THEN a ELSE ReadAll(a))

\* The transport w, once the host has sent the CBW c with the tag 771 and the
\* transport has read its packets
AfterCbw(w, c) ==
    ReadAll([w EXCEPT !.out_q = Chunks(CbwBytes([c EXCEPT !.tag = 771]), w.ps)])

\* The transport as BulkOnly::new builds it, with w's configuration
Fresh(w) ==
    [w EXCEPT !.state = "Idle", !.cbw = DefaultCbw, !.cs = "None",
              !.inner = Zeros(Len(w.inner)), !.rpos = 0, !.wpos = 0,
              !.in_stalled = FALSE, !.out_stalled = FALSE, !.g = NoHistory]

\* What a caller and the host can tell of a transport
Observable(w) ==
    [state |-> w.state, cbw |-> w.cbw, cs |-> w.cs, unread |-> Unread(w),
     in_stalled |-> w.in_stalled, out_stalled |-> w.out_stalled,
     in_q |-> w.in_q, out_q |-> w.out_q, res |-> w.res, bad |-> w.g.bad]

\* The CBW tried after a reset: a valid one, of a data-out command
ResetCbws == {c \in Cbws : c.sig /\ c.len = 40 /\ c.flags = 0 /\ c.cb_len = 10}

\* C16: a reset, whatever the state it comes in, leaves both endpoints
\* unstalled and the transport in Idle with an empty IO buffer, no latched
\* status and a default CBW, so that the next 31 bytes received are parsed as a
\* CBW just as a transport that was built afresh parses them.
C16_ResetStartsAfresh ==
    [][BusReset =>
          /\ state' = "Idle"
          /\ ~in_stalled' /\ ~out_stalled'
          /\ rpos' = 0 /\ wpos' = 0
          /\ cs' = "None"
          /\ cbw' = DefaultCbw
          /\ \A c \in ResetCbws : \E w \in {[World' EXCEPT !.g = NoHistory]} :
                Observable(AfterCbw(w, c)) = Observable(AfterCbw(Fresh(w), c))]_vars

\* a reset came in StatusTransfer when 8 of the 13 bytes of the CSW were sent,
\* with an endpoint of the command halted before; a valid CBW sent now begins
\* its command
C16_Witness ==
    /\ state = "Idle"
    /\ Len(g.cswOut) = 8
    /\ g.stalls # {}
    /\ ~in_stalled /\ ~out_stalled
    /\ cs = "None"
    /\ pc = "out"
    /\ ~panicked
    /\ \E c \in ResetCbws :
          /\ AfterCbw(World, c).state = "DataTransferFromHost"
          /\ AfterCbw(World, c).cbw.tag = 771

\* C17: in every state of a transport driven by poll, get_command is None
\* exactly in Idle and CommandTransfer; has_status is false in Idle and in
\* CommandTransfer, and in a data phase it is false until the callback has
\* called pass, fail or fail_phase for this command, and is then the status
\* the callback gave.
C17_CommandAndStatus ==
    /\ has_command(World) <=> state \notin {"Idle", "CommandTransfer"}
    /\ state \in {"Idle", "CommandTransfer"} => ~status_present(World)
    /\ state \in DataStates /\ g.latched = "None" => ~status_present(World)
    /\ status_present(World) => cs = g.latched

\* a data phase goes on with the status the callback latched, and the command
\* is still there
C17_Witness ==
    /\ state = "DataTransferToHost"
    /\ has_command(World)
    /\ status_present(World)
    /\ g.latched = "Passed"
    /\ available_read(World) > 0
    /\ pc = "out"

\* C18: a valid CBW with data_transfer_len = 0 begins a command without data
\* whatever its direction bit: the state is DataTransferNoData until the
\* status phase, no data packet is read from the OUT endpoint or written to the
\* IN endpoint, write_data and read_data return InvalidState, and the CSW has
\* residue 0 and is sent with no endpoint halted for this command (a halt left
\* by an earlier command is the host's to clear).
C18_NoDataCommand ==
    g.tag0 # 0 /\ g.dtl0 = 0 =>
        /\ g.dir0 = "NotExpected"
        /\ state \in DataStates => state = "DataTransferNoData"
        /\ g.moved = 0 /\ g.dataOut = <<>> /\ g.sent = <<>>
        /\ g.accepted = <<>> /\ g.got = <<>>
        /\ state \in DataStates \cup {"StatusTransfer"} => g.stalls = {}
        /\ g.cswOut # <<>> => g.cswStall = <<{}>>
        /\ Len(g.cswOut) = CSW_LEN => CswResidue(g.cswOut) = 0
        /\ state = "DataTransferNoData" /\ Running =>
              /\ \A len \in WriteLens :
                    write_data(World, [i \in 1..len |-> DevByte(i)]).res = "InvalidState"
              /\ \A len \in ReadLens : read_data(World, len).res = "InvalidState"
              /\ \E w \in {[World EXCEPT !.out_q = <<<<HostByte(1)>>>>]} :
                    read(w).out_q = w.out_q

\* a command with data_transfer_len = 0 and the direction bit set (byte 12 of
\* the CBW, still in the buffer's array) is in DataTransferNoData, and the
\* callback's call was refused
C18_Witness ==
    /\ state = "DataTransferNoData"
    /\ g.tag0 # 0 /\ g.dtl0 = 0
    /\ inner[13] = 128
    /\ pc = "cb"
    /\ res = "InvalidState"
    /\ used >= 2

\* the bytes written in the status phase so far begin the command's CSW
CswSoFar == g.cswOut # <<>> => IsPrefix(g.cswOut, CswOf(g.latched))

\* read leaves a packet that waits on the OUT endpoint where it is in the
\* device-to-host, no-data and status phases, and write puts none on the IN
\* endpoint in the command phase and the host-to-device phase
OtherEndpointUntouched ==
    Running =>
       /\ state \in {"DataTransferToHost", "DataTransferNoData", "StatusTransfer"} =>
             \E w \in {[World EXCEPT !.out_q = <<<<HostByte(1)>>>>]} :
                read(w).out_q = w.out_q
       /\ state \in {"Idle", "CommandTransfer", "DataTransferFromHost"} =>
             \E w \in {[World EXCEPT !.in_q = <<>>]} : write(w).in_q = <<>>

\* C19: the phases of a command never overlap.  No packet is taken from the
\* OUT endpoint in DataTransferToHost, DataTransferNoData or StatusTransfer and
\* none is written to the IN endpoint in Idle, CommandTransfer or
\* DataTransferFromHost; the bytes written in the status phase are the 13 of
\* the CSW and nothing else, no data byte of the command follows the first of
\* them, and unless the bus is reset the status phase is left, and the next
\* command begun, only when all 13 are written.
C19_PhasesInSequence ==
    [][/\ g'.stray = {}
       /\ OtherEndpointUntouched'
       /\ CswSoFar'
       /\ state' \in DataStates => g'.cswOut = <<>>
       /\ g.cswOut # <<>> /\ g'.tag0 = g.tag0 =>
             g'.dataOut = g.dataOut /\ g'.sent = g.sent /\ g'.moved = g.moved
       /\ state = "StatusTransfer" /\ state' # "StatusTransfer" /\ ~BusReset =>
             Len(g'.cswOut) = CSW_LEN]_vars

\* the second command of a session has sent data bytes and then its whole CSW
C19_Witness ==
    /\ g.tag0 = 515
    /\ g.dataOut # <<>>
    /\ Len(g.cswOut) = CSW_LEN
    /\ state = "Idle"
    /\ g.stray = {}

\* the callback runs with a Command only for a parsed command without a status
CallbackHasWork == pc = "cb" /\ cmd => has_command(World) /\ ~status_present(World)

\* C20: poll never invokes the callback when no command is parsed (Idle,
\* CommandTransfer) or when a status is latched, and once the callback has
\* called pass, fail or fail_phase, which take its Command, the poll it runs in
\* returns without invoking it again.
C20_CallbackOnlyForOpenCommand ==
    [][/\ CallbackHasWork'
       /\ pc = "cb" /\ ~cmd => ~cmd']_vars

\* the callback called pass in the middle of a device-to-host transfer and has
\* not returned yet; bytes are still to be sent, so that this poll and the next
\* ones run with a command and its status latched
C20_Witness ==
    /\ pc = "cb"
    /\ ~cmd
    /\ state = "DataTransferToHost"
    /\ cs = "Passed"
    /\ available_read(World) > packet_size
    /\ ENABLED CbReturn

\* C21: poll returns Err only for an error of the USB stack other than
\* WouldBlock that an endpoint read or write raised; WouldBlock and the
\* transport's own errors (InvalidState, IoBufferOverflow, FullPacketExpected)
\* are swallowed and poll returns Ok.  rd and wr are the results of the last
\* read() and write() of the poll that returned last.
C21_PollErrOnlyForUsbError ==
    pc = "out" =>
       /\ pollRes = "Err" <=> (rd = "UsbError" \/ wr = "UsbError")
       /\ rd \in {"Ok", "WouldBlock", "IoBufferOverflow", "InvalidState",
                  "FullPacketExpected"}
          /\ wr \in {"Ok", "WouldBlock", "IoBufferOverflow", "InvalidState",
                     "FullPacketExpected"}
          => pollRes = "Ok"
       /\ rd = "UsbError" => out_q # <<>> /\ Len(Head(out_q)) > packet_size

\* poll returned Err: the OUT endpoint holds a packet longer than its max
\* packet size and read() failed with the endpoint's error
C21_Witness ==
    /\ pc = "out"
    /\ pollRes = "Err"
    /\ rd = "UsbError"
    /\ out_q # <<>>
    /\ Len(Head(out_q)) > packet_size

\* The data bytes the host has sent since its last CBW
HostStream == [i \in 1..host.bytes |-> HostByte(i)]

\* C22: byte order is kept from end to end.  In a host-to-device data phase the
\* bytes read_data has returned, call after call, are a prefix of the bytes the
\* transport took from the OUT endpoint, which are a prefix of the data bytes
\* the host sent after the CBW; in a device-to-host data phase the data bytes
\* written to the IN endpoint are a prefix of the bytes write_data and
\* try_write_data_all accepted, call after call.
C22_ByteOrderKept ==
    /\ g.dir0 = "Out" /\ g.tag0 = host.tag =>
          IsPrefix(g.got, g.sent) /\ IsPrefix(g.sent, HostStream)
    /\ g.dir0 = "In" => IsPrefix(g.dataOut, g.accepted)

\* the callback has read all 40 bytes of a data-out command through an IO
\* buffer that is shorter than that and was compacted on the way
C22_Witness ==
    /\ g.dir0 = "Out"
    /\ g.tag0 = host.tag
    /\ Len(g.got) = 40
    /\ Len(inner) < 40
    /\ g.got = HostStream

\* C23: 0 <= rpos <= wpos <= cap after every operation on the IO buffer (write,
\* write_all, read, clean and the compaction they trigger), for every length
\* of the input and every count the closures answer.
C23_CursorsInBounds == 0 <= rpos /\ rpos <= wpos /\ wpos <= Len(inner)

\* write_all handed its closure a slice of 3 bytes of an empty buffer, the
\* closure answered more than the buffer is long, and wpos stopped at the end
C23_Witness ==
    /\ pc = "write_all"
    /\ used = 1
    /\ g.slices = <<3>>
    /\ rpos = 0
    /\ wpos = Len(inner)

\* C24: every command that get_command() exposes has a block_len in 1..=16 and a
\* LUN that is not greater than the max_lun the transport was built with
C24_CommandInRange ==
    has_command(World) =>
        /\ cbw.block_len >= MIN_CB_LEN /\ cbw.block_len <= MAX_CB_LEN
        /\ cbw.lun <= max_lun

\* C25: set_status called while the transport is Idle, in CommandTransfer or in
\* StatusTransfer panics: it latches no status and puts no CSW on the IN endpoint
C25_SetStatusOutsideDataPhase ==
    [][(/\ \E status \in Statuses : ApiSetStatus(status)
        /\ state \in {"Idle", "CommandTransfer", "StatusTransfer"})
          => (panicked' /\ cs' = cs /\ in_q' = in_q)]_vars

\* C26: BulkOnly::new returns InvalidMaxLun when max_lun > 15, BufferTooSmall
\* when (max_lun being in range) the buffer is shorter than max(31,
\* packet_size), and otherwise Ok with the transport Idle, nothing to read in the
\* buffer and no status latched
C26_Construction ==
    pc = "new" =>
        /\ max_lun > 15 => built = "InvalidMaxLun"
        /\ (max_lun <= 15 /\ (Len(inner) < 31 \/ Len(inner) < packet_size))
              => built = "BufferTooSmall"
        /\ (max_lun <= 15 /\ Len(inner) >= 31 /\ Len(inner) >= packet_size)
              => /\ built = "Ok"
                 /\ state = "Idle"
                 /\ available_read(World) = 0
                 /\ cs = "None"

C26_Witness ==
    /\ pc = "new"
    /\ built = "Ok"
    /\ max_lun = 15
    /\ packet_size = 32
    /\ Len(inner) = 32
    /\ state = "Idle"

\* A whole CSW that decodes to what the transport held when it built it
DecodesToHeld(csw) ==
    /\ Len(csw) = CSW_LEN
    /\ Slice(csw, 0, 4) = to_le_bytes(1396855637)
    /\ csw[13] \in {0, 1, 2}
    /\ CswTag(csw) = g.held.tag
    /\ CswFromBytes(csw) = [data_transfer_len |-> g.held.residue, status |-> g.held.status]

\* C27: the CSW the transport builds is exactly 13 bytes (the signature
\* 0x53425355, the tag and the residue, little-endian, and a status byte 0, 1 or
\* 2): in the status phase the bytes sent so far and those still queued make up
\* such a CSW, never more than 13 bytes are sent, and the CSW decodes to the tag,
\* residue and status the transport held when the data phase ended
C27_CswRoundTrip ==
    /\ state = "StatusTransfer" => DecodesToHeld(CswSentAndQueued)
    /\ Len(g.cswOut) <= CSW_LEN
    /\ Len(g.cswOut) = CSW_LEN => DecodesToHeld(g.cswOut)

\* a whole CSW with a residue that is not zero and the status Failed has been sent
C27_Witness ==
    /\ Len(g.cswOut) = CSW_LEN
    /\ state = "Idle"
    /\ CswFromBytes(g.cswOut) = [data_transfer_len |-> 28, status |-> "Failed"]
    /\ CswTag(g.cswOut) = 515
    /\ g.held = [tag |-> 515, residue |-> 28, status |-> "Failed", unread |-> 12]

States ==
    {"Idle", "CommandTransfer", "DataTransferToHost", "DataTransferFromHost",
     "DataTransferNoData", "StatusTransfer"}

\* The changes of state of the specified state machine
SpecEdges ==
    {e \in (States \X (States \cup {"Reset"})) :
        \/ e = <<"Idle", "CommandTransfer">>
        \/ e[1] = "CommandTransfer" /\ e[2] \in DataStates
        \/ e[1] \in DataStates /\ e[2] = "StatusTransfer"
        \/ e = <<"StatusTransfer", "Idle">>
        \/ e[2] = "Reset"}

\* The change of state handle_read_cbw makes when a whole CBW arrives in the
\* first packet
WholeCbwEdges == {"Idle"} \X DataStates

C29_Write ==
    [][(pc' = "write" /\ used' = used + 1) =>
         \E len \in {g'.call.len}, n \in {g'.call.n} :
            /\ n = Min(len, Len(inner) - available_read(World))
            /\ available_write(World) >= len => rpos' = rpos
            /\ Unread(World') = Unread(World) \o SubSeq(BufData(len), 1, n)
            /\ available_read(World') = available_read(World) + n
            /\ (rpos = wpos /\ len = Len(inner)) => n = Len(inner)]_vars

\* a write of 4 bytes to a buffer of 4 that held one unread byte behind two read
\* ones: the byte was moved to the front and 3 of the 4 bytes were taken
C29_Witness ==
    /\ pc = "write"
    /\ Len(inner) = 4
    /\ g.call.len = 4
    /\ g.call.n = 3
    /\ rpos = 0
    /\ wpos = 4
    /\ Unread(World) = <<13, 31, 32, 33>>

\* C30: Buffer::write_all(max, err, fill) returns err, without calling fill and
\* with the unread bytes as they were, when fewer than max bytes are free even
\* after compaction; otherwise it hands fill a slice of exactly max bytes and
\* moves wpos on by min(count that fill answered, max), which it returns
C30_WriteAll ==
    [][(pc' = "write_all" /\ used' = used + 1) =>
         \E max \in {g'.call.len}, count \in {g'.call.count} :
            IF Len(inner) - available_read(World) < max
            THEN /\ g'.call.res = "Overflow"
                 /\ g'.slices = g.slices
                 /\ Unread(World') = Unread(World)
            ELSE /\ g'.call.res = "Ok"
                 /\ g'.slices = Append(g.slices, max)
                 /\ g'.call.n = Min(count, max)
                 /\ available_read(World') = available_read(World) + Min(count, max)]_vars

C32_PollTerminates == (pc = "cb" /\ ~panicked) ~> (pc = "out" \/ panicked)

\* A status Failed or PhaseError is latched with the whole CSW sent or queued, or
\* the CSW has been sent whole and the transport is Idle again
FailLatched ==
    \/ /\ state = "StatusTransfer"
       /\ cs \in {"Failed", "PhaseError"}
       /\ CswSentAndQueued = CswOf(cs)
    \/ /\ state = "Idle"
       /\ Len(g.cswOut) = CSW_LEN

\* C33: set_status(Failed) and set_status(PhaseError) never panic, whatever the IN
\* endpoint answers to the first CSW packet: the status is latched and the
\* transport is in StatusTransfer with the CSW queued, or has sent it whole and
\* is Idle
C33_FailNeverPanics ==
    [][(\E status \in {"Failed", "PhaseError"} : CbSetStatus(status)) =>
          (~panicked /\ FailLatched)']_vars

\* C34: parsing the command inside poll is total: for every command that
\* get_command() exposes, whatever the length of its block and its opcode,
\* parse_cb returns a command and poll does not panic
C34_ParseIsTotal == g.parsed # "panic"

\* C35: in a device-to-host data phase the data bytes written to the IN endpoint
\* are never more than the data_transfer_len of the CBW, whatever calls of
\* write_data and try_write_data_all the callback makes
C35_NeverMoreThanAsked == g.dir0 = "In" => Len(g.dataOut) <= g.dtl0

\* C36: in a host-to-device data phase the transport takes at most
\* data_transfer_len bytes from the OUT endpoint as data: with the residue at 0
\* read() leaves the bulk-out packets where they are until the CSW is sent
C36_NeverMoreThanOffered == g.dir0 = "Out" => Len(g.sent) <= g.dtl0

\* C37: in a device-to-host data phase only the last data packet is shorter than
\* packet_size: every data packet written to the IN endpoint before another one
\* is a full packet
C37_ShortPacketIsLast ==
    g.dir0 = "In" => \A i \in 1..(Len(g.pkts) - 1) : g.pkts[i] = packet_size

\* The IO buffer cannot take a full packet, even after compaction
NoRoomForPacket == Len(inner) - available_read(World) < packet_size

\* C38: in a host-to-device data phase with no status latched, when the IO buffer
\* cannot take a full packet even after compaction, read() answers
\* IoBufferOverflow, takes nothing from the OUT endpoint and leaves the unread
\* bytes and the residue as they are; and the bytes the callback has read
\* followed by the unread bytes are all the bytes received, so none is dropped
\* or overwritten
C38_FullBufferStopsReading ==
    (state = "DataTransferFromHost" /\ cs = "None" /\ ~panicked) =>
        /\ g.got \o Unread(World) = g.sent
        /\ NoRoomForPacket =>
              \E r \in {read(World)} :
                 /\ r.res = "IoBufferOverflow"
                 /\ r.out_q = out_q
                 /\ Unread(r) = Unread(World)
                 /\ r.cbw = cbw
                 /\ r.g.sent = g.sent

\* poll's read() has just been refused for want of room, with a packet waiting in
\* the OUT endpoint and bytes the callback has not read yet
C38_Witness ==
    /\ state = "DataTransferFromHost"
    /\ cs = "None"
    /\ rd = "IoBufferOverflow"
    /\ pc = "cb"
    /\ NoRoomForPacket
    /\ out_q # <<>>
    /\ Len(Unread(World)) = 32
    /\ Len(g.sent) = 32

\* C39: when a valid CBW is accepted the IO buffer is empty on entry to the data
\* state, and every data byte written to the IN endpoint in a data-in command
\* was supplied by the callback: the bytes written are a prefix of the bytes
\* write_data and try_write_data_all accepted
C39_OnlyTheCallbacksBytes ==
    /\ g.entry = 0
    /\ g.dir0 = "In" => IsPrefix(g.dataOut, g.accepted)

\* The CSW of the tag, residue and status held when the data phase ended
HeldCsw ==
    CSW_SIGNATURE_LE \o to_le_bytes(g.held.tag) \o to_le_bytes(g.held.residue)
        \o <<StatusByte(g.held.status)>>

\* C40: for a transport driven by poll, at most one CSW of 13 bytes is written to
\* the IN endpoint for one command, and only after a valid CBW has been accepted:
\* the bytes written in the status phase since the last CBW was accepted are a
\* prefix of one CSW, the one of a command whose tag the host sent, and the
\* status phase was entered from a data-transfer state of that command.
\* Whenever the state is StatusTransfer a status is latched and the IO buffer
\* holds the CSW alone, of which the bytes not sent yet are the unread ones.
C40_OneCswPerCommand ==
    /\ g.cswOut # <<>> =>
          /\ g.tag0 # 0
          /\ g.held.tag = g.tag0
          /\ IsPrefix(g.cswOut, HeldCsw)
          /\ \E e \in g.edges : e[2] = "StatusTransfer"
    /\ \A e \in g.edges : e[2] = "StatusTransfer" => e[1] \in DataStates
    /\ state = "StatusTransfer" =>
          /\ cs # "None"
          /\ cs = g.held.status
          /\ wpos = CSW_LEN
          /\ rpos = Len(g.cswOut)
          /\ Unread(World) = SubSeq(HeldCsw, Len(g.cswOut) + 1, CSW_LEN)

\* the first packet of a CSW is with the host and its last 5 bytes wait in the
\* IO buffer: the command failed with 12 bytes of its data unsent
C40_Witness ==
    /\ state = "StatusTransfer"
    /\ packet_size = 8
    /\ cs = "Failed"
    /\ Len(g.cswOut) = 8
    /\ rpos = 8
    /\ wpos = CSW_LEN
    /\ g.held.unread > 0
    /\ Unread(World) = SubSeq(HeldCsw, 9, CSW_LEN)

=============================================================================
